---------------------------- MODULE Spec2Model ----------------------------
(***************************************************************************)
(* A model of setvar (src/setvar.py): the assignment codec, the line-wise  *)
(* rewrite of one configuration file, the per-shell merge of the files,    *)
(* set / remove / sync over several shells, and the timestamped backup     *)
(* archives.                                                               *)
(*                                                                         *)
(* Text is a sequence of one-character strings; a file is its text, read   *)
(* through readlines and written through writelines.  A path is a record   *)
(* [dir, name]; the file system is a function from the existing paths to   *)
(* their text.                                                             *)
(***************************************************************************)
EXTENDS Naturals, Sequences, FiniteSets, TLC

(***************************************************************************)
(* Bounds of the model.                                                    *)
(***************************************************************************)
\* longest value drawn for the codec
MaxValLen == 3
\* most lines of a drawn file
MaxLines == 2
\* consecutive calls on one file in SpecFile
MaxCalls == 2
\* commands run one after the other in SpecArchive
MaxRuns == 2

(***************************************************************************)
(* State.  fs: the existing files and their text; archives: the backup     *)
(* directory, one archive per timestamp; now: the clock in seconds;        *)
(* dry_run, backup_enabled: the SetVar object's flags; call: the last call *)
(* made, with its arguments, result, events and the state it started from; *)
(* prev: the call before it; runs: the calls made so far; readonly: the    *)
(* files that cannot be opened for writing (open(filepath, 'w') and        *)
(* write_bytes raise); inflight: the invocations of update_variable_in_file *)
(* that run side by side, each with its place and the lines it holds.      *)
(***************************************************************************)
VARIABLES fs, archives, now, dry_run, backup_enabled, call, prev, runs, readonly,
          inflight

vars == <<fs, archives, now, dry_run, backup_enabled, call, prev, runs, readonly,
          inflight>>

(***************************************************************************)
(* Characters.                                                             *)
(***************************************************************************)
NL == "\n"
DQ == "\""
SQ == "'"
BS == "\\"
SP == " "
TAB == "\t"
\* the backquote character (a token: the lexer takes no backquote in a string)
BQ == "backquote"

Letters ==
    {"a","b","c","d","e","f","g","h","i","j","k","l","m","n","o","p","q","r",
     "s","t","u","v","w","x","y","z",
     "A","B","C","D","E","F","G","H","I","J","K","L","M","N","O","P","Q","R",
     "S","T","U","V","W","X","Y","Z"}
Digits == {"0","1","2","3","4","5","6","7","8","9"}

\* [A-Za-z_]
IdentStart == Letters \cup {"_"}
\* [A-Za-z0-9_]
IdentChar == IdentStart \cup Digits
\* \s of the regular expressions and the characters str.strip() removes
Whitespace == {SP, TAB, NL}

\* the characters of format_export_line's needs_quotes list
QuoteChars ==
    {SP, TAB, "$", BQ, DQ, SQ, BS, "!", "*", "?", "[", "]", "(", ")", "{",
     "}", "<", ">", "|", "&", ";"}

EXPORT == <<"e","x","p","o","r","t">>

(***************************************************************************)
(* Text helpers.                                                           *)
(***************************************************************************)
\* s[i:] of Python, i counted from 1
From(s, i) == SubSeq(s, i, Len(s))

StartsWith(s, p) == Len(s) >= Len(p) /\ SubSeq(s, 1, Len(p)) = p

\* F applied to the value of v, which is computed once
Bind(v, F(_)) == CHOOSE y \in {F(x) : x \in {v}} : TRUE

RECURSIVE Concat(_)
\* ''.join(lines)
Concat(ss) == IF ss = <<>> THEN <<>> ELSE Head(ss) \o Concat(Tail(ss))

RECURSIVE SkipWs(_, _)
\* the first index >= i of s that holds no whitespace (Len(s) + 1 if none): \s*
SkipWs(s, i) ==
    IF i <= Len(s) /\ s[i] \in Whitespace THEN SkipWs(s, i + 1) ELSE i

RECURSIVE IdentEnd(_, _)
\* the index after the longest run of identifier characters from i
IdentEnd(s, i) ==
    IF i <= Len(s) /\ s[i] \in IdentChar THEN IdentEnd(s, i + 1) ELSE i

RECURSIVE LStrip(_)
LStrip(s) ==
    IF s # <<>> /\ Head(s) \in Whitespace THEN LStrip(Tail(s)) ELSE s

RECURSIVE RStrip(_)
RStrip(s) ==
    IF s # <<>> /\ s[Len(s)] \in Whitespace
    THEN RStrip(SubSeq(s, 1, Len(s) - 1)) ELSE s

\* str.strip()
Strip(s) == RStrip(LStrip(s))

RECURSIVE EscapeDQ(_)
\* value.replace('"', '\\"')
EscapeDQ(s) ==
    IF s = <<>> THEN <<>>
    ELSE (IF Head(s) = DQ THEN <<BS, DQ>> ELSE <<Head(s)>>) \o EscapeDQ(Tail(s))

(***************************************************************************)
(* Assignment codec.                                                       *)
(***************************************************************************)
NoMatch == <<>>

\* [A-Za-z_][A-Za-z0-9_]* at index i: the index after it, or 0
MatchIdent(s, i) ==
    IF i <= Len(s) /\ s[i] \in IdentStart THEN IdentEnd(s, i + 1) ELSE 0

\* =(.*)$ at index e, after a name ending before e: <<name, group 2>>.
\* "." matches no newline and "$" matches at the end or before a last newline.
MatchRest(s, nameStart, e) ==
    IF e = 0 \/ e > Len(s) \/ s[e] # "=" THEN NoMatch
    ELSE LET rest == From(s, e + 1)
             body == IF rest # <<>> /\ rest[Len(rest)] = NL
                     THEN SubSeq(rest, 1, Len(rest) - 1) ELSE rest
         IN  IF \E k \in 1..Len(body) : body[k] = NL THEN NoMatch
             ELSE <<SubSeq(s, nameStart, e - 1), body>>

\* ^\s*export\s+([A-Za-z_][A-Za-z0-9_]*)=(.*)$
MatchExport(line) ==
    LET i == SkipWs(line, 1)
        k == i + Len(EXPORT)
        n == SkipWs(line, k)
    IN  IF StartsWith(From(line, i), EXPORT) /\ n > k
        THEN MatchRest(line, n, MatchIdent(line, n))
        ELSE NoMatch

\* ^\s*([A-Za-z_][A-Za-z0-9_]*)=(.*)$
MatchBare(line) ==
    LET i == SkipWs(line, 1)
    IN  MatchRest(line, i, MatchIdent(line, i))

\* lines 176-179: one layer of matching quotes is removed
StripQuotes(v) ==
    IF v # <<>> /\ ((v[1] = DQ /\ v[Len(v)] = DQ) \/ (v[1] = SQ /\ v[Len(v)] = SQ))
    THEN SubSeq(v, 2, Len(v) - 1)
    ELSE v

\* parse_export_line: <<name, value>>, or NoMatch for None
parse_export_line(line) ==
    LET m1 == MatchExport(line)
        m  == IF m1 # NoMatch THEN m1 ELSE MatchBare(line)
    IN  IF m = NoMatch THEN NoMatch
        ELSE <<m[1], StripQuotes(Strip(m[2]))>>

\* format_export_line
format_export_line(name, value) ==
    IF \E k \in 1..Len(value) : value[k] \in QuoteChars
    THEN EXPORT \o <<SP>> \o name \o <<"=", DQ>> \o EscapeDQ(value) \o <<DQ, NL>>
    ELSE EXPORT \o <<SP>> \o name \o <<"=">> \o value \o <<NL>>


(***************************************************************************)
(* Config file accessor.                                                   *)
(***************************************************************************)
HOME == "~"
Home(name) == [dir |-> HOME, name |-> name]

RECURSIVE SplitLines(_, _)
\* f.readlines(): the text cut after every newline, terminators kept;
\* cur is the line being collected
SplitLines(text, cur) ==
    IF text = <<>> THEN (IF cur = <<>> THEN <<>> ELSE <<cur>>)
    ELSE IF Head(text) = NL
         THEN <<Append(cur, NL)>> \o SplitLines(Tail(text), <<>>)
         ELSE SplitLines(Tail(text), Append(cur, Head(text)))

\* read_config_file: a missing file reads as no lines
read_config_file(f, filepath) ==
    IF filepath \in DOMAIN f THEN SplitLines(f[filepath], <<>>) ELSE <<>>

\* open(filepath, 'w') and f.writelines(lines), outside dry-run
WriteFile(f, filepath, lines) ==
    [p \in DOMAIN f \cup {filepath} |->
        IF p = filepath THEN Concat(lines) ELSE f[p]]

(***************************************************************************)
(* Rewrite of one file.                                                    *)
(***************************************************************************)
IsAssignmentOf(line, name) ==
    LET parsed == parse_export_line(line)
    IN  parsed # NoMatch /\ parsed[1] = name

\* lines 434-440: every line assigning name becomes the formatted line
ReplaceLines(lines, name, formatted_line) ==
    [i \in 1..Len(lines) |->
        IF IsAssignmentOf(lines[i], name) THEN formatted_line ELSE lines[i]]

\* an append that never terminates the last line
AppendBare(new_lines, formatted_line) == Append(new_lines, formatted_line)

\* lines 443-447: with no line replaced the formatted line is appended, after
\* a newline when the last line has none
AppendLine(new_lines, formatted_line) ==
    IF new_lines # <<>> /\ new_lines[Len(new_lines)][Len(new_lines[Len(new_lines)])] # NL
    THEN new_lines \o <<<<NL>>, formatted_line>>
    ELSE Append(new_lines, formatted_line)

\* the new_lines update_variable_in_file writes
UpdatedLines(lines, name, value) ==
    LET formatted_line == format_export_line(name, value)
        variable_updated == \E i \in 1..Len(lines) : IsAssignmentOf(lines[i], name)
    IN  IF variable_updated
        THEN ReplaceLines(lines, name, formatted_line)
        ELSE AppendLine(lines, formatted_line)

\* a removal that drops only the first line assigning the name
RemainingAfterFirst(lines, name) ==
    LET hits == {i \in 1..Len(lines) : IsAssignmentOf(lines[i], name)}
    IN  IF hits = {} THEN lines
        ELSE LET first == CHOOSE i \in hits : \A j \in hits : i <= j
             IN  SubSeq(lines, 1, first - 1) \o SubSeq(lines, first + 1, Len(lines))

\* the new_lines remove_variable_from_file writes
RemainingLines(lines, name) ==
    SelectSeq(lines, LAMBDA line : ~IsAssignmentOf(line, name))

(***************************************************************************)
(* The world a call runs in and changes: the files, the archives, the      *)
(* clock, and the events of the call in the order they happen.             *)
(***************************************************************************)
EmptyFs == [p \in {} |-> <<>>]
NoArchives == [t \in {} |-> <<>>]

\* dt: the seconds that pass before each archive the call writes
World(f, a, t, dt) ==
    [fs |-> f, archives |-> a, now |-> t, dt |-> dt, log |-> <<>>]

\* an event of a call: "touch", "write" (existed: the path was a file before),
\* "archive" (ts: its timestamp, entries: what it holds, existed: an archive of
\* that timestamp was replaced), "prompt" (existed: the answer was y), "error"
\* (a write of the path that raised)
Event(kind, path, ts, existed) ==
    [ev |-> kind, path |-> path, ts |-> ts, existed |-> existed, entries |-> <<>>]

NoPath == [dir |-> "", name |-> ""]

\* write_config_file: nothing in dry-run, else the whole file is replaced;
\* when open raises, the file is as it was and the error is logged and raised
write_config_file(w, filepath, lines) ==
    IF dry_run THEN w
    ELSE IF filepath \in readonly
    THEN [w EXCEPT !.log = Append(@, Event("error", filepath, w.now,
                                           filepath \in DOMAIN w.fs))]
    ELSE [w EXCEPT !.fs = WriteFile(w.fs, filepath, lines),
                   !.log = Append(@, Event("write", filepath, w.now,
                                           filepath \in DOMAIN w.fs))]

\* update_variable_in_file: [w: the world after, ret: its result, False when
\* the write raised]
update_variable_in_file(w, filepath, name, value) ==
    IF dry_run THEN [w |-> w, ret |-> TRUE]
    ELSE [w   |-> write_config_file(w, filepath,
                      UpdatedLines(read_config_file(w.fs, filepath), name, value)),
          ret |-> filepath \notin readonly]

\* remove_variable_from_file: [w: the world after, ret: its result]
remove_variable_from_file(w, filepath, name) ==
    IF dry_run THEN [w |-> w, ret |-> TRUE]
    ELSE [w   |-> write_config_file(w, filepath,
                      RemainingLines(read_config_file(w.fs, filepath), name)),
          ret |-> filepath \notin readonly]

(***************************************************************************)
(* Shell registry.                                                         *)
(***************************************************************************)
BASH == "bash"
ZSH == "zsh"
SH == "sh"
Shells == {BASH, ZSH, SH}

\* Shell.config_files
config_files(shell) ==
    CASE shell = BASH ->
           <<Home(".bashrc"), Home(".bash_profile"), Home(".profile")>>
      [] shell = ZSH ->
           <<Home(".zshrc"), Home(".zprofile"), Home(".zshenv")>>
      [] shell = SH ->
           <<Home(".profile")>>
      [] OTHER -> <<>>

InSeq(x, seq) == \E i \in 1..Len(seq) : seq[i] = x

find_existing_config_files(f, shell) ==
    SelectSeq(config_files(shell), LAMBDA p : p \in DOMAIN f)

\* Path(primary).touch(): a missing file is created empty
Touch(w, p) ==
    IF p \in DOMAIN w.fs THEN w
    ELSE [w EXCEPT !.fs = WriteFile(w.fs, p, <<>>),
                   !.log = Append(@, Event("touch", p, w.now, FALSE))]

\* a get_primary_config_file that creates the file in dry-run too
primary_created_always(w, shell) ==
    LET existing == find_existing_config_files(w.fs, shell)
        primary == config_files(shell)[1]
    IN  IF existing # <<>> THEN [w |-> w, ret |-> existing[1]]
        ELSE [w |-> Touch(w, primary), ret |-> primary]

\* get_primary_config_file: [w, ret: the path]
get_primary_config_file(w, shell) ==
    LET existing == find_existing_config_files(w.fs, shell)
        primary == config_files(shell)[1]
    IN  IF existing # <<>> THEN [w |-> w, ret |-> existing[1]]
        ELSE [w |-> IF dry_run THEN w ELSE Touch(w, primary), ret |-> primary]

(***************************************************************************)
(* Variable maps: Python dicts, as sequences of <<name, value>> in         *)
(* insertion order.                                                        *)
(***************************************************************************)
DictHas(d, k) == \E i \in 1..Len(d) : d[i][1] = k

DictGet(d, k) == d[CHOOSE i \in 1..Len(d) : d[i][1] = k][2]

\* d[k] = v: a key already there keeps its place
DictSet(d, k, v) ==
    IF DictHas(d, k)
    THEN [i \in 1..Len(d) |-> IF d[i][1] = k THEN <<k, v>> ELSE d[i]]
    ELSE Append(d, <<k, v>>)

RECURSIVE DictUpdate(_, _)
\* d.update(e)
DictUpdate(d, e) ==
    IF e = <<>> THEN d
    ELSE Bind(DictSet(d, Head(e)[1], Head(e)[2]),
              LAMBDA d1 : DictUpdate(d1, Tail(e)))

\* the lines of a file that parse, as <<name, value>>, in file order
ParsedLines(lines) ==
    SelectSeq([i \in 1..Len(lines) |-> parse_export_line(lines[i])],
              LAMBDA parsed : parsed # NoMatch)

\* get_variables_from_file
get_variables_from_file(f, filepath) ==
    DictUpdate(<<>>, ParsedLines(read_config_file(f, filepath)))

RECURSIVE MergeFirstFound(_, _, _)
\* a merge in which the first file found to hold a name keeps it
MergeFirstFound(f, files, acc) ==
    IF files = <<>> THEN acc
    ELSE Bind(DictUpdate(get_variables_from_file(f, Head(files)), acc),
              LAMBDA merged : MergeFirstFound(f, Tail(files), merged))

RECURSIVE MergeFiles(_, _, _)
\* shell_vars.update(file_vars) for each file in turn
MergeFiles(f, files, acc) ==
    IF files = <<>> THEN acc
    ELSE Bind(DictUpdate(acc, get_variables_from_file(f, Head(files))),
              LAMBDA merged : MergeFiles(f, Tail(files), merged))

\* the merged variables of one shell (lines 216-219, 529-532, 559-562)
shell_vars(f, shell) ==
    MergeFiles(f, find_existing_config_files(f, shell), <<>>)

\* get_all_variables
get_all_variables(f, shells) ==
    [s \in {shells[i] : i \in 1..Len(shells)} |-> shell_vars(f, s)]

(***************************************************************************)
(* Backup archives.  An archive is the sequence of its entries, in the     *)
(* order written, and its metadata.                                        *)
(***************************************************************************)
NoMessage == <<>>
DefaultMessage == <<"Auto-backup before changes">>
\* list_backups' default limit
DefaultLimit == 10

Min(a, b) == IF a <= b THEN a ELSE b

\* create_backup: [w, ret: <<timestamp>> naming the archive, or <<>> for None]
create_backup(w, files_to_backup, message) ==
    IF ~backup_enabled \/ dry_run THEN [w |-> w, ret |-> <<>>]
    ELSE LET timestamp == w.now + w.dt
             present == SelectSeq(files_to_backup, LAMBDA p : p \in DOMAIN w.fs)
             archive ==
                 [entries  |-> [i \in 1..Len(present) |->
                                  [name |-> present[i].name, data |-> w.fs[present[i]]]],
                  metadata |-> [timestamp |-> timestamp,
                                files |-> files_to_backup,
                                message |-> IF message = NoMessage
                                            THEN DefaultMessage ELSE message]]
         IN  [w |-> [w EXCEPT
                       !.now = timestamp,
                       !.archives = [t \in DOMAIN @ \cup {timestamp} |->
                                       IF t = timestamp THEN archive ELSE @[t]],
                       !.log = Append(@,
                                  [Event("archive", NoPath, timestamp,
                                         timestamp \in DOMAIN w.archives)
                                   EXCEPT !.entries = archive.entries])],
              ret |-> <<timestamp>>]

RECURSIVE Descending(_)
\* sorted(..., reverse=True) of the archives' names
Descending(ts) ==
    IF ts = {} THEN <<>>
    ELSE LET m == CHOOSE t \in ts : \A u \in ts : u <= t
         IN  <<m>> \o Descending(ts \ {m})

\* list_backups
list_backups(a, limit) ==
    LET names == Descending(DOMAIN a)
        shown == SubSeq(names, 1, Min(limit, Len(names)))
    IN  [i \in 1..Len(shown) |->
            [name |-> shown[i],
             timestamp |-> a[shown[i]].metadata.timestamp,
             message |-> a[shown[i]].metadata.message,
             files |-> a[shown[i]].metadata.files]]

\* zf.namelist() without metadata.json
EntryNames(archive) == [i \in 1..Len(archive.entries) |-> archive.entries[i].name]

\* zf.read(filename): of several entries of one name the last is read
ZipRead(archive, filename) ==
    LET last == CHOOSE i \in 1..Len(archive.entries) :
                   /\ archive.entries[i].name = filename
                   /\ \A j \in (i + 1)..Len(archive.entries) :
                         archive.entries[j].name # filename
    IN  archive.entries[last].data

\* Path.home() / f".{filename}"
RestoreTarget(filename) == Home("." \o filename)

RECURSIVE RestoreEntries(_, _, _)
\* lines 327-333: every entry's bytes are written to its target, up to the
\* first write that raises
RestoreEntries(w, archive, names) ==
    IF names = <<>> THEN w
    ELSE LET target_path == RestoreTarget(Head(names))
             content == ZipRead(archive, Head(names))
         IN  IF target_path \in readonly
             THEN [w EXCEPT !.log = Append(@, Event("error", target_path, w.now,
                                                    target_path \in DOMAIN w.fs))]
             ELSE
             Bind([w EXCEPT !.fs = [p \in DOMAIN @ \cup {target_path} |->
                                          IF p = target_path THEN content ELSE @[p]],
                                !.log = Append(@, Event("write", target_path, w.now,
                                                        target_path \in DOMAIN w.fs))],
                  LAMBDA w1 : RestoreEntries(w1, archive, Tail(names)))

PreRestoreMessage(backup_id) == <<"Pre-restore backup (restoring from)", backup_id>>

\* restore_backup: [w, ret: its result]
restore_backup(w, backup_id) ==
    IF dry_run THEN [w |-> w, ret |-> TRUE]
    ELSE IF backup_id \notin DOMAIN w.archives THEN [w |-> w, ret |-> FALSE]
    ELSE LET names == EntryNames(w.archives[backup_id])
             files_to_backup ==
                 SelectSeq([i \in 1..Len(names) |-> RestoreTarget(names[i])],
                           LAMBDA p : p \in DOMAIN w.fs)
         IN  Bind(IF files_to_backup # <<>>
                  THEN create_backup(w, files_to_backup,
                                     PreRestoreMessage(backup_id)).w
                  ELSE w,
                  LAMBDA w1 :
                      [w |-> RestoreEntries(w1, w1.archives[backup_id],
                                            EntryNames(w1.archives[backup_id])),
                       ret |-> \A i \in 1..Len(w1.archives[backup_id].entries) :
                                  RestoreTarget(w1.archives[backup_id].entries[i].name)
                                      \notin readonly])

(***************************************************************************)
(* set_variable, remove_variable, sync_variables.  A result is             *)
(* [ok: the value returned, out: the message printed last].  confirm is    *)
(* "skip" for skip_confirmation, else the answer typed at the prompt.      *)
(***************************************************************************)
Result(ok, out) == [ok |-> ok, out |-> out]

\* re.match(r'^[A-Za-z_][A-Za-z0-9_]*$', name): "$" also matches before a
\* newline that ends the name
IsValidName(name) ==
    LET e == MatchIdent(name, 1)
    IN  /\ e # 0
        /\ \/ e = Len(name) + 1
           \/ e = Len(name) /\ name[e] = NL

\* lines 387 and 400: the prompt is shown outside dry-run unless skipped, and
\* only the answer y proceeds
Prompted(confirm) == confirm # "skip" /\ ~dry_run

Ask(w, confirm) ==
    IF Prompted(confirm)
    THEN [w EXCEPT !.log = Append(@, Event("prompt", NoPath, w.now, confirm = "y"))]
    ELSE w

Declined(confirm) == Prompted(confirm) /\ confirm # "y"

RECURSIVE CollectPrimary(_, _, _, _)
\* a collection that takes the first file of every shell, holding the name or
\* not
CollectPrimary(w, name, shells, files) ==
    IF shells = <<>> THEN [w |-> w, files |-> files]
    ELSE LET shell == Head(shells)
             existing == find_existing_config_files(w.fs, shell)
             primary == get_primary_config_file(w, shell)
             w1 == IF existing = <<>> THEN primary.w ELSE w
             file_to_modify == IF existing = <<>> THEN primary.ret ELSE existing[1]
         IN  Bind([w |-> w1,
                   files |-> IF InSeq(file_to_modify, files) THEN files
                             ELSE Append(files, file_to_modify)],
                  LAMBDA c : CollectPrimary(c.w, name, Tail(shells), c.files))

RECURSIVE CollectEvery(_, _, _, _)
\* a collection that appends the file of every shell, seen before or not
CollectEvery(w, name, shells, files) ==
    IF shells = <<>> THEN [w |-> w, files |-> files]
    ELSE LET shell == Head(shells)
             existing == find_existing_config_files(w.fs, shell)
             primary == get_primary_config_file(w, shell)
             w1 == IF existing = <<>> THEN primary.w ELSE w
             candidates == IF existing = <<>> THEN <<primary.ret>> ELSE existing
             holding == SelectSeq(candidates, LAMBDA p :
                            DictHas(get_variables_from_file(w1.fs, p), name))
             file_to_modify == IF holding # <<>> THEN holding[1] ELSE candidates[1]
         IN  Bind([w |-> w1, files |-> Append(files, file_to_modify)],
                  LAMBDA c : CollectEvery(c.w, name, Tail(shells), c.files))

RECURSIVE CollectFiles(_, _, _, _)
\* lines 365-384: [w, files: files_to_modify]
CollectFiles(w, name, shells, files) ==
    IF shells = <<>> THEN [w |-> w, files |-> files]
    ELSE LET shell == Head(shells)
             existing == find_existing_config_files(w.fs, shell)
             primary == get_primary_config_file(w, shell)
             w1 == IF existing = <<>> THEN primary.w ELSE w
             candidates == IF existing = <<>> THEN <<primary.ret>> ELSE existing
             holding == SelectSeq(candidates, LAMBDA p :
                            DictHas(get_variables_from_file(w1.fs, p), name))
             file_to_modify == IF holding # <<>> THEN holding[1] ELSE candidates[1]
         IN  Bind([w |-> w1,
                   files |-> IF InSeq(file_to_modify, files) THEN files
                             ELSE Append(files, file_to_modify)],
                  LAMBDA c : CollectFiles(c.w, name, Tail(shells), c.files))

RECURSIVE UpdateUntilFailure(_, _, _, _, _)
\* updates that stop at the first file whose update fails
UpdateUntilFailure(w, files, name, value, success) ==
    IF files = <<>> \/ ~success THEN [w |-> w, ret |-> Result(success, "updated")]
    ELSE Bind(update_variable_in_file(w, Head(files), name, value),
              LAMBDA r : UpdateUntilFailure(r.w, Tail(files), name, value,
                                            success /\ r.ret))

RECURSIVE UpdateAll(_, _, _, _, _)
\* lines 409-418
UpdateAll(w, files, name, value, success) ==
    IF files = <<>> THEN [w |-> w, ret |-> Result(success, "updated")]
    ELSE Bind(update_variable_in_file(w, Head(files), name, value),
              LAMBDA r : UpdateAll(r.w, Tail(files), name, value, success /\ r.ret))

SetMessage(name, value) == <<"Before setting", name, value>>

\* lines 404-420: the backup, then the updates
BackupAndUpdate(w, files, name, value) ==
    Bind(IF backup_enabled /\ ~dry_run /\ files # <<>>
         THEN create_backup(w, files, SetMessage(name, value)).w
         ELSE w,
         LAMBDA w1 : UpdateAll(w1, files, name, value, TRUE))

\* set_variable; specific_file is NoPath for None
set_variable(w, name, value, shells, confirm, specific_file) ==
    IF ~IsValidName(name)
    THEN [w |-> w, ret |-> Result(FALSE, "invalid name")]
    ELSE IF specific_file # NoPath /\ specific_file \notin DOMAIN w.fs
    THEN [w |-> w, ret |-> Result(FALSE, "no such file")]
    ELSE Bind(IF specific_file # NoPath
              THEN [w |-> w, files |-> <<specific_file>>]
              ELSE CollectFiles(w, name, shells, <<>>),
              LAMBDA c :
                  IF Declined(confirm)
                  THEN [w |-> Ask(c.w, confirm), ret |-> Result(FALSE, "cancelled")]
                  ELSE BackupAndUpdate(Ask(c.w, confirm), c.files, name, value))

\* every existing file of every shell, whether it holds the name or not
FilesOfShells(f, name, shells) ==
    Concat([i \in 1..Len(shells) |-> find_existing_config_files(f, shells[i])])

\* lines 462-467: every existing file of every shell that holds the name
FilesHolding(f, name, shells) ==
    LET of(shell) == SelectSeq(find_existing_config_files(f, shell), LAMBDA p :
                         DictHas(get_variables_from_file(f, p), name))
    IN  Concat([i \in 1..Len(shells) |-> of(shells[i])])

RECURSIVE RemoveAll(_, _, _, _)
\* lines 492-501
RemoveAll(w, files, name, success) ==
    IF files = <<>> THEN [w |-> w, ret |-> Result(success, "removed")]
    ELSE Bind(remove_variable_from_file(w, Head(files), name),
              LAMBDA r : RemoveAll(r.w, Tail(files), name, success /\ r.ret))

RemoveMessage(name) == <<"Before removing", name>>

\* remove_variable
remove_variable(w, name, shells, confirm) ==
    LET files_to_modify == FilesHolding(w.fs, name, shells)
    IN  IF files_to_modify = <<>>
        THEN [w |-> w, ret |-> Result(TRUE, "not found")]
        ELSE IF Declined(confirm)
        THEN [w |-> Ask(w, confirm), ret |-> Result(FALSE, "cancelled")]
        ELSE Bind(IF backup_enabled /\ ~dry_run
                  THEN create_backup(Ask(w, confirm), files_to_modify,
                                     RemoveMessage(name)).w
                  ELSE Ask(w, confirm),
                  LAMBDA w1 : RemoveAll(w1, files_to_modify, name, TRUE))

\* fnmatch.fnmatch for the patterns drawn here: "*" and literal names
STAR == <<"*">>
FnMatch(name, pattern) == pattern = STAR \/ pattern = name

\* lines 539-547; keys is <<>> for None
FilterKeys(d, keys) ==
    IF keys = <<>> THEN d
    ELSE SelectSeq(d, LAMBDA kv : \E i \in 1..Len(keys) : FnMatch(kv[1], keys[i]))

\* '[not set]'
NotSet == <<"[", "n", "o", "t", SP, "s", "e", "t", "]">>

\* changes that record only the source variables a destination lacks
ChangesOfAbsent(source_vars, dest_vars) ==
    LET absent == SelectSeq(source_vars, LAMBDA kv : ~DictHas(dest_vars, kv[1]))
    IN  [i \in 1..Len(absent) |->
            <<absent[i][1], [new_value |-> absent[i][2], old_value |-> NotSet]>>]

\* lines 564-570: the source variables a destination lacks or holds differently
Changes(source_vars, dest_vars) ==
    LET differs == SelectSeq(source_vars, LAMBDA kv :
                       ~DictHas(dest_vars, kv[1]) \/ DictGet(dest_vars, kv[1]) # kv[2])
    IN  [i \in 1..Len(differs) |->
            <<differs[i][1],
              [new_value |-> differs[i][2],
               old_value |-> IF DictHas(dest_vars, differs[i][1])
                             THEN DictGet(dest_vars, differs[i][1]) ELSE NotSet]>>]

RECURSIVE PlanFor(_, _, _, _, _)
\* lines 554-573: sync_plan, a dict from destination shell to its changes
PlanFor(f, from_shell, to_shells, source_vars, plan) ==
    IF to_shells = <<>> THEN plan
    ELSE LET to_shell == Head(to_shells)
             changes == Changes(source_vars, shell_vars(f, to_shell))
         IN  PlanFor(f, from_shell, Tail(to_shells), source_vars,
                     IF to_shell = from_shell \/ changes = <<>> THEN plan
                     ELSE DictSet(plan, to_shell, changes))

\* the plan sync_variables computes (empty too when it returns before line 554)
sync_plan(f, from_shell, to_shells, keys) ==
    PlanFor(f, from_shell, to_shells,
            FilterKeys(shell_vars(f, from_shell), keys), <<>>)

RECURSIVE ApplyChanges(_, _, _, _)
\* lines 603-606, one destination
ApplyChanges(w, to_shell, changes, success) ==
    IF changes = <<>> THEN [w |-> w, ret |-> success]
    ELSE Bind(set_variable(w, Head(changes)[1], Head(changes)[2].new_value,
                           <<to_shell>>, "skip", NoPath),
              LAMBDA r : ApplyChanges(r.w, to_shell, Tail(changes),
                                      success /\ r.ret.ok))

RECURSIVE ApplyPlan(_, _, _)
\* lines 601-611
ApplyPlan(w, plan, success) ==
    IF plan = <<>>
    THEN [w |-> w, ret |-> Result(success, IF success THEN "synced" ELSE "")]
    ELSE Bind(ApplyChanges(w, Head(plan)[1], Head(plan)[2], success),
              LAMBDA r : ApplyPlan(r.w, Tail(plan), r.ret))

\* sync_variables
sync_variables(w, from_shell, to_shells, keys, confirm) ==
    LET all_vars == shell_vars(w.fs, from_shell)
        source_vars == FilterKeys(all_vars, keys)
        plan == PlanFor(w.fs, from_shell, to_shells, source_vars, <<>>)
    IN  IF all_vars = <<>> THEN [w |-> w, ret |-> Result(TRUE, "no variables")]
        ELSE IF source_vars = <<>> THEN [w |-> w, ret |-> Result(TRUE, "no match")]
        ELSE IF plan = <<>> THEN [w |-> w, ret |-> Result(TRUE, "in sync")]
        ELSE IF Declined(confirm)
        THEN [w |-> Ask(w, confirm), ret |-> Result(FALSE, "cancelled")]
        ELSE ApplyPlan(Ask(w, confirm), plan, TRUE)

(***************************************************************************)
(* Calls.                                                                  *)
(***************************************************************************)
NoArgs ==
    [name |-> <<>>, value |-> <<>>, line |-> <<>>, filepath |-> NoPath,
     shells |-> <<>>, from_shell |-> "", keys |-> <<>>, confirm |-> "skip",
     files |-> <<>>, message |-> <<>>, backup_id |-> 0, dt |-> 0]

Call(op, args, ret, w) ==
    [op |-> op, args |-> args, ret |-> ret, log |-> w.log,
     pre_fs |-> fs, pre_archives |-> archives]

NoCall ==
    [op |-> "none", args |-> NoArgs, ret |-> <<>>, log |-> <<>>,
     pre_fs |-> EmptyFs, pre_archives |-> NoArchives]

\* the state of a call that changed the world to w
Returns(op, args, r) ==
    /\ fs' = r.w.fs
    /\ archives' = r.w.archives
    /\ now' = r.w.now
    /\ call' = Call(op, args, r.ret, r.w)
    /\ prev' = call
    /\ runs' = runs + 1
    /\ UNCHANGED <<dry_run, backup_enabled, readonly, inflight>>

Here == World(fs, archives, now, 0)
After(dt) == World(fs, archives, now, dt)

(***************************************************************************)
(* SpecCodec: format_export_line and parse_export_line on drawn inputs.    *)
(***************************************************************************)
X == <<"X">>
Y == <<"Y">>

SeqsUpTo(S, n) == UNION {[1..k -> S] : k \in 0..n}

CodecNames == {X, <<"_", "a", "1">>, <<"P", "A", "T", "H">>}
CodecChars == {"a", SP, DQ, SQ, BS, NL}
CodecValues == SeqsUpTo(CodecChars, MaxValLen)

InitCodec ==
    /\ fs = EmptyFs
    /\ archives = NoArchives
    /\ now = 0
    /\ dry_run = FALSE
    /\ backup_enabled = FALSE
    /\ runs = 0
    /\ prev = NoCall
    /\ readonly = {}
    /\ inflight = <<>>
    /\ \E n \in CodecNames, v \in CodecValues :
          call = [NoCall EXCEPT !.op = "input",
                                !.args = [NoArgs EXCEPT !.name = n, !.value = v]]

Format ==
    /\ call.op = "input"
    /\ Returns("format_export_line", call.args,
               [w |-> Here, ret |-> format_export_line(call.args.name, call.args.value)])

Parse ==
    /\ call.op = "format_export_line"
    /\ Returns("parse_export_line", [NoArgs EXCEPT !.line = call.ret],
               [w |-> Here, ret |-> parse_export_line(call.ret)])

NextCodec == Format \/ Parse

SpecCodec == InitCodec /\ [][NextCodec]_vars

(***************************************************************************)
(* SpecFile: update_variable_in_file, called again and again on one file.  *)
(***************************************************************************)
BASHRC == Home(".bashrc")

Terminated(line) == Append(line, NL)

\* lines without their terminator
SampleLines ==
    { EXPORT \o <<SP, "X", "=", "1">>,
      <<"X", "=", "2">>,
      <<"#", SP, "c">>,
      EXPORT \o <<SP, "Y", "=", "1">>,
      <<SP>> \o EXPORT \o <<SP, "X", "=", SQ, "a", SP, "b", SQ>>,
      <<>> }

\* the texts of up to MaxLines sample lines, the last one with or without
\* its terminator
FileTexts ==
    LET bodies == SeqsUpTo(SampleLines, MaxLines)
        full(b) == Concat([i \in 1..Len(b) |-> Terminated(b[i])])
    IN  {full(b) : b \in bodies}
        \cup {SubSeq(full(b), 1, Len(full(b)) - 1) : b \in bodies \ {<<>>}}

FileNames == {X, Y}
FileValues == {<<"1">>, <<"a", SP, "b">>, <<"a", NL, "b">>}

InitFile ==
    /\ fs \in {EmptyFs} \cup {[p \in {BASHRC} |-> t] : t \in FileTexts}
    /\ archives = NoArchives
    /\ now = 0
    /\ dry_run = FALSE
    /\ backup_enabled = FALSE
    /\ runs = 0
    /\ prev = NoCall
    /\ readonly = {}
    /\ inflight = <<>>
    /\ call = NoCall

UpdateInFile ==
    /\ runs < MaxCalls
    /\ \E n \in FileNames, v \in FileValues :
          Returns("update_variable_in_file",
                  [NoArgs EXCEPT !.filepath = BASHRC, !.name = n, !.value = v],
                  update_variable_in_file(Here, BASHRC, n, v))

RemoveFromFile ==
    /\ runs < MaxCalls
    /\ \E n \in FileNames :
          Returns("remove_variable_from_file",
                  [NoArgs EXCEPT !.filepath = BASHRC, !.name = n],
                  remove_variable_from_file(Here, BASHRC, n))

NextFile == UpdateInFile \/ RemoveFromFile

SpecFile == InitFile /\ [][NextFile]_vars

(***************************************************************************)
(* Spec: one command (main() runs one per process) of set, remove, sync or *)
(* list, on drawn configuration files, in each mode.                       *)
(***************************************************************************)
ConfigPaths == UNION {{config_files(s)[i] : i \in 1..Len(config_files(s))} : s \in Shells}

\* the texts a configuration file starts with, when it exists
TextsOf(p) ==
    CASE p = Home(".bashrc") ->
           {EXPORT \o <<SP, "X", "=", "1", NL>>}
      [] p = Home(".bash_profile") ->
           {<<"X", "=", "2", NL, "#", SP, "c", NL>>}
      [] p = Home(".profile") ->
           {EXPORT \o <<SP, "X", "=", "1", NL, NL>> \o EXPORT \o <<SP, "X", "=", "3">>}
      [] p = Home(".zshrc") ->
           {EXPORT \o <<SP, "X", "=", "2", NL>> \o EXPORT \o <<SP, "Y", "=", "1", NL>>,
            <<>>}
      [] p = Home(".zprofile") ->
           {<<SP>> \o EXPORT \o <<SP, "X", "=", SQ, "a", SP, "b", SQ, NL>>}
      [] p = Home(".zshenv") ->
           {EXPORT \o <<SP, "Y", "=", "a", DQ, "b", NL>>}

StoreFiles ==
    UNION {{f \in [S -> UNION {TextsOf(p) : p \in S}] : \A p \in S : f[p] \in TextsOf(p)} :
           S \in SUBSET ConfigPaths}

\* names: two identifiers, one that is none, one ending in a newline
StoreNames == {X, Y, <<"1", "X">>, <<"X", NL>>}
StoreValues == {<<"1">>, <<"a", SP, "b">>}
ShellLists ==
    {<<BASH>>, <<ZSH>>, <<SH>>, <<BASH, SH>>, <<SH, BASH>>, <<BASH, ZSH, SH>>}
Confirms == {"skip", "y", "n"}
\* --shell lists, or --file
Targets ==
    {[shells |-> l, file |-> NoPath] : l \in ShellLists}
    \cup {[shells |-> <<BASH>>, file |-> Home(".bashrc")]}
KeyLists == {<<>>, <<Y>>}

Init ==
    /\ fs \in StoreFiles
    /\ archives = NoArchives
    /\ now = 0
    /\ dry_run \in BOOLEAN
    /\ backup_enabled \in BOOLEAN
    /\ runs = 0
    /\ prev = NoCall
    /\ readonly = {}
    /\ inflight = <<>>
    /\ call = NoCall

SetVariable ==
    /\ call = NoCall
    /\ \E name \in StoreNames, value \in StoreValues, target \in Targets,
          confirm \in Confirms :
          Returns("set_variable",
                  [NoArgs EXCEPT !.name = name, !.value = value,
                                 !.shells = target.shells, !.filepath = target.file,
                                 !.confirm = confirm],
                  set_variable(Here, name, value, target.shells, confirm, target.file))

RemoveVariable ==
    /\ call = NoCall
    /\ \E name \in {X, Y, <<"Z">>}, shells \in ShellLists, confirm \in Confirms :
          Returns("remove_variable",
                  [NoArgs EXCEPT !.name = name, !.shells = shells, !.confirm = confirm],
                  remove_variable(Here, name, shells, confirm))

SyncVariables ==
    /\ call = NoCall
    /\ \E from_shell \in Shells, to_shells \in ShellLists, keys \in KeyLists,
          confirm \in Confirms :
          Returns("sync_variables",
                  [NoArgs EXCEPT !.from_shell = from_shell, !.shells = to_shells,
                                 !.keys = keys, !.confirm = confirm],
                  sync_variables(Here, from_shell, to_shells, keys, confirm))

ListVariables ==
    /\ call = NoCall
    /\ \E shells \in ShellLists :
          Returns("get_all_variables", [NoArgs EXCEPT !.shells = shells],
                  [w |-> Here, ret |-> get_all_variables(fs, shells)])

Next == SetVariable \/ RemoveVariable \/ SyncVariables \/ ListVariables

Spec == Init /\ [][Next]_vars

(***************************************************************************)
(* SpecArchive: MaxRuns commands one after the other, of backup create,    *)
(* backup restore, backup list, set and remove, over a home directory that *)
(* may hold files earlier restores left.  dt: the seconds that pass before *)
(* the command writes its archive.                                         *)
(***************************************************************************)
PROFILE == Home(".profile")
\* where restore puts the entries ".bashrc" and "..bashrc"
RESTORED == Home("..bashrc")
RESTORED2 == Home("...bashrc")

ArchiveTexts(p) ==
    CASE p = BASHRC    -> EXPORT \o <<SP, "X", "=", "1", NL>>
      [] p = PROFILE   -> EXPORT \o <<SP, "X", "=", "3">>
      [] p = RESTORED  -> <<"#", SP, "a", NL>>
      [] p = RESTORED2 -> <<"#", SP, "b", NL>>

ArchiveFiles ==
    {[p \in S |-> ArchiveTexts(p)] : S \in SUBSET {BASHRC, PROFILE, RESTORED, RESTORED2}}

BackupLists == {<<BASHRC>>, <<BASHRC, PROFILE>>}
Messages == {NoMessage, <<"msg">>}
Delays == {0, 1}

InitArchive ==
    /\ fs \in ArchiveFiles
    /\ archives = NoArchives
    /\ now = 0
    /\ dry_run \in BOOLEAN
    /\ backup_enabled \in BOOLEAN
    /\ runs = 0
    /\ prev = NoCall
    /\ readonly = {}
    /\ inflight = <<>>
    /\ call = NoCall

CreateBackup ==
    /\ runs < MaxRuns
    /\ \E files \in BackupLists, message \in Messages, dt \in Delays :
          Returns("create_backup",
                  [NoArgs EXCEPT !.files = files, !.message = message, !.dt = dt],
                  create_backup(After(dt), files, message))

RestoreBackup ==
    /\ runs < MaxRuns
    /\ \E backup_id \in 0..MaxRuns, dt \in Delays :
          Returns("restore_backup",
                  [NoArgs EXCEPT !.backup_id = backup_id, !.dt = dt],
                  restore_backup(After(dt), backup_id))

ListBackups ==
    /\ runs < MaxRuns
    /\ Returns("list_backups", NoArgs,
               [w |-> Here, ret |-> list_backups(archives, DefaultLimit)])

SetInArchive ==
    /\ runs < MaxRuns
    /\ \E dt \in Delays :
          Returns("set_variable",
                  [NoArgs EXCEPT !.name = X, !.value = <<"2">>, !.shells = <<BASH>>,
                                 !.dt = dt],
                  set_variable(After(dt), X, <<"2">>, <<BASH>>, "skip", NoPath))

RemoveInArchive ==
    /\ runs < MaxRuns
    /\ \E dt \in Delays :
          Returns("remove_variable",
                  [NoArgs EXCEPT !.name = X, !.shells = <<BASH, SH>>, !.dt = dt],
                  remove_variable(After(dt), X, <<BASH, SH>>, "skip"))

SyncInArchive ==
    /\ runs < MaxRuns
    /\ \E dt \in Delays :
          Returns("sync_variables",
                  [NoArgs EXCEPT !.from_shell = BASH, !.shells = <<ZSH, SH>>, !.dt = dt],
                  sync_variables(After(dt), BASH, <<ZSH, SH>>, <<>>, "skip"))

NextArchive ==
    \/ CreateBackup
    \/ RestoreBackup
    \/ ListBackups
    \/ SetInArchive
    \/ RemoveInArchive
    \/ SyncInArchive

SpecArchive == InitArchive /\ [][NextArchive]_vars

(***************************************************************************)
(* Properties of the codec (SpecCodec).                                    *)
(***************************************************************************)
\* [A-Za-z_][A-Za-z0-9_]*, the whole of the name
Identifier(name) ==
    /\ name # <<>>
    /\ name[1] \in IdentStart
    /\ \A i \in 2..Len(name) : name[i] \in IdentChar

\* C1: for every valid identifier name and every string value,
\* parse_export_line(format_export_line(name, value)) returns exactly
\* (name, value).
C1_RoundTrip ==
    (/\ call.op = "parse_export_line"
     /\ prev.op = "format_export_line"
     /\ Identifier(prev.args.name))
        => call.ret = <<prev.args.name, prev.args.value>>

\* C1's case where the code does round-trip: a value with a space and a single
\* quote, which is quoted and comes back
C1_Quoted ==
    /\ call.op = "parse_export_line"
    /\ prev.op = "format_export_line"
    /\ prev.args.value = <<"a", SP, SQ>>
    /\ call.ret = <<prev.args.name, prev.args.value>>

(***************************************************************************)
(* Properties of update_variable_in_file (SpecFile).                       *)
(***************************************************************************)
\* C4: a second update_variable_in_file(path, name, value) with the same
\* arguments leaves the file exactly as it was after the first.
C4_Idempotent ==
    (/\ call.op = "update_variable_in_file"
     /\ prev.op = "update_variable_in_file"
     /\ call.args = prev.args)
        => fs = call.pre_fs

\* C4's case with a value of one line: the second call changes nothing, after
\* a first call that appended
C4_Repeated ==
    /\ call.op = "update_variable_in_file"
    /\ prev.op = "update_variable_in_file"
    /\ call.args = prev.args
    /\ call.args.value = <<"a", SP, "b">>
    /\ Len(read_config_file(fs, BASHRC)) = 3
    /\ fs = call.pre_fs

\* the lines of the file the call began with, and those it left
LinesBefore == read_config_file(call.pre_fs, call.args.filepath)
LinesAfter == read_config_file(fs, call.args.filepath)

\* the lines that are an assignment of the call's name
Assigning(lines) ==
    {i \in 1..Len(lines) :
        /\ parse_export_line(lines[i]) # NoMatch
        /\ parse_export_line(lines[i])[1] = call.args.name}

\* C10: when several lines of the file assign X, update_variable_in_file(path,
\* X, v) replaces each of them, in place, with the formatted line of (X, v),
\* and the file has as many lines as before.
C10_DuplicateRewrite ==
    (/\ call.op = "update_variable_in_file"
     /\ call.args.filepath \in DOMAIN call.pre_fs
     /\ Cardinality(Assigning(LinesBefore)) >= 2)
        => /\ Len(LinesAfter) = Len(LinesBefore)
           /\ \A i \in 1..Len(LinesBefore) :
                 LinesAfter[i] = IF i \in Assigning(LinesBefore)
                                 THEN format_export_line(call.args.name, call.args.value)
                                 ELSE LinesBefore[i]

\* C10's case with a value of one line: both assignments rewritten in place
C10_Rewritten ==
    /\ call.op = "update_variable_in_file"
    /\ call.args.filepath \in DOMAIN call.pre_fs
    /\ call.args.value = <<"a", SP, "b">>
    /\ Cardinality(Assigning(LinesBefore)) = 2
    /\ Len(LinesAfter) = 2
    /\ \A i \in 1..2 : LinesAfter[i] = format_export_line(call.args.name, call.args.value)

(***************************************************************************)
(* Properties of one command (Spec).                                       *)
(***************************************************************************)
\* the existing files of the shell, in candidate order, with a line that
\* assigns the name
Defining(f, shell, name) ==
    SelectSeq(config_files(shell), LAMBDA p :
        /\ p \in DOMAIN f
        /\ Bind(read_config_file(f, p), LAMBDA lines :
                \E i \in 1..Len(lines) : IsAssignmentOf(lines[i], name)))

\* the value of the last line of the file that assigns the name
LastValue(f, p, name) ==
    Bind(read_config_file(f, p), LAMBDA lines :
        LET last == CHOOSE i \in 1..Len(lines) :
                       /\ IsAssignmentOf(lines[i], name)
                       /\ \A j \in (i + 1)..Len(lines) : ~IsAssignmentOf(lines[j], name)
        IN  parse_export_line(lines[last])[2])

\* the merged variables give the name the value of the last file defining it
Precedes(f, shell, name, merged) ==
    LET d == Defining(f, shell, name)
    IN  IF d = <<>> THEN ~DictHas(merged, name)
        ELSE /\ DictHas(merged, name)
             /\ DictGet(merged, name) = LastValue(f, d[Len(d)], name)

\* C2: with no name patterns, after sync_variables(source, [dest]) was applied
\* successfully in real mode the plan for (source, [dest]) is empty: every
\* source variable has the same merged value in the destination.
C2_SyncConverges ==
    (/\ call.op = "sync_variables"
     /\ ~dry_run
     /\ call.args.keys = <<>>
     /\ Len(call.args.shells) = 1
     /\ call.ret = Result(TRUE, "synced"))
        => /\ sync_plan(fs, call.args.from_shell, call.args.shells, <<>>) = <<>>
           /\ LET source == shell_vars(fs, call.args.from_shell)
                  dest == shell_vars(fs, call.args.shells[1])
              IN  \A i \in 1..Len(source) :
                     /\ DictHas(dest, source[i][1])
                     /\ DictGet(dest, source[i][1]) = source[i][2]

\* C2's case where the code does converge: bash synced to a zsh that has a
\* .zshrc
C2_Converged ==
    /\ call.op = "sync_variables"
    /\ ~dry_run
    /\ call.args.keys = <<>>
    /\ call.args.from_shell = BASH
    /\ call.args.shells = <<ZSH>>
    /\ call.ret = Result(TRUE, "synced")
    /\ Home(".zshrc") \in DOMAIN call.pre_fs
    /\ fs # call.pre_fs
    /\ sync_plan(fs, BASH, <<ZSH>>, <<>>) = <<>>

\* C3: the merged value of a name is the value of the existing file that is
\* last in the shell's candidate order among those defining it, and within
\* that file of its last line assigning the name; get_all_variables returns
\* these merged variables.  (Stated of every drawn set of existing files,
\* before a command and after get_all_variables.)
C3_MergePrecedence ==
    /\ call.op \in {"none", "get_all_variables"} =>
          \A shell \in Shells :
              Bind(shell_vars(fs, shell), LAMBDA merged :
                  \A name \in {X, Y} : Precedes(fs, shell, name, merged))
    /\ call.op = "get_all_variables" =>
          \A i \in 1..Len(call.args.shells), name \in {X, Y} :
              Precedes(fs, call.args.shells[i], name, call.ret[call.args.shells[i]])

\* C3's case: .bashrc and .profile both exist and define X differently, and
\* the merged value is .profile's last
C3_LaterFileWins ==
    /\ call.op = "get_all_variables"
    /\ InSeq(BASH, call.args.shells)
    /\ {Home(".bashrc"), Home(".profile")} \subseteq DOMAIN fs
    /\ Home(".bash_profile") \notin DOMAIN fs
    /\ LastValue(fs, Home(".bashrc"), X) = <<"1">>
    /\ DictGet(call.ret[BASH], X) = <<"3">>

\* the prompt of the call was answered with something other than y
DeclinedPrompt ==
    \E i \in 1..Len(call.log) : call.log[i].ev = "prompt" /\ ~call.log[i].existed

\* C7: when the user declines the confirmation prompt of set_variable,
\* remove_variable or sync_variables, no file is created, modified or
\* archived compared to the state before the call, and the outcome reported
\* is a cancellation.
C7_DeclinedFrame ==
    (/\ call.op \in {"set_variable", "remove_variable", "sync_variables"}
     /\ DeclinedPrompt)
        => /\ fs = call.pre_fs
           /\ archives = call.pre_archives
           /\ call.ret.out = "cancelled"

\* C7's case where the code does leave everything: a declined remove
C7_DeclinedRemove ==
    /\ call.op = "remove_variable"
    /\ DeclinedPrompt
    /\ backup_enabled
    /\ fs = call.pre_fs
    /\ archives = call.pre_archives
    /\ call.ret.out = "cancelled"

\* C8: set_variable with a name that does not match [A-Za-z_][A-Za-z0-9_]*
\* returns failure and leaves every file and the backup directory unchanged.
C8_InvalidName ==
    (call.op = "set_variable" /\ ~Identifier(call.args.name))
        => /\ ~call.ret.ok
           /\ fs = call.pre_fs
           /\ archives = call.pre_archives
           /\ call.log = <<>>

\* C8's case where the code does reject: a name that starts with a digit
C8_Rejected ==
    /\ call.op = "set_variable"
    /\ call.args.name = <<"1", "X">>
    /\ ~dry_run
    /\ call.pre_fs # EmptyFs
    /\ call.ret = Result(FALSE, "invalid name")
    /\ fs = call.pre_fs

\* no existing file of the call's shells defines the call's name
NowhereDefined ==
    \A i \in 1..Len(call.args.shells) :
        Defining(call.pre_fs, call.args.shells[i], call.args.name) = <<>>

\* C9: remove_variable for a name that no existing config file of any target
\* shell defines returns success, writes no config file and creates no
\* backup archive.
C9_RemoveNoop ==
    (call.op = "remove_variable" /\ NowhereDefined)
        => /\ call.ret.ok
           /\ fs = call.pre_fs
           /\ archives = call.pre_archives
           /\ call.log = <<>>

\* C9's case: in real mode with backups on, Y is removed from bash, whose
\* existing files define only X
C9_NothingRemoved ==
    /\ call.op = "remove_variable"
    /\ call.args.name = Y
    /\ call.args.shells = <<BASH>>
    /\ find_existing_config_files(call.pre_fs, BASH) # <<>>
    /\ ~dry_run
    /\ backup_enabled
    /\ call.ret = Result(TRUE, "not found")
    /\ fs = call.pre_fs

(***************************************************************************)
(* Properties of the archives (SpecArchive).                               *)
(***************************************************************************)
\* the writes of the call, as places in its events
Writes == {i \in 1..Len(call.log) : call.log[i].ev = "write"}

\* the call wrote an archive holding the file as it was before the call,
\* before its first write to a file
SnapshotBefore(p) ==
    \E j \in 1..Len(call.log) :
        /\ call.log[j].ev = "archive"
        /\ \A i \in Writes : j < i
        /\ \E k \in 1..Len(call.log[j].entries) :
              call.log[j].entries[k] = [name |-> p.name, data |-> call.pre_fs[p]]

\* C5: in real mode with backups enabled, whenever set_variable,
\* remove_variable or restore_backup overwrites an existing file, an archive
\* holding that file's content from before the operation was written earlier
\* in the operation, before its first write to any target file.
C5_SnapshotFirst ==
    (/\ call.op \in {"set_variable", "remove_variable", "restore_backup"}
     /\ ~dry_run
     /\ backup_enabled)
        => \A i \in Writes :
              call.log[i].path \in DOMAIN call.pre_fs => SnapshotBefore(call.log[i].path)

\* C5's case where the code does snapshot first: set_variable rewrites an
\* existing .bashrc after archiving it
C5_SetSnapshots ==
    /\ call.op = "set_variable"
    /\ ~dry_run
    /\ backup_enabled
    /\ BASHRC \in DOMAIN call.pre_fs
    /\ fs[BASHRC] # call.pre_fs[BASHRC]
    /\ SnapshotBefore(BASHRC)

\* the restore of the archive that the call before it created
RestoresCreated ==
    /\ call.op = "restore_backup"
    /\ prev.op = "create_backup"
    /\ prev.ret # <<>>
    /\ call.args.backup_id = prev.ret[1]

\* the files create_backup was given that existed; restore_backup began with
\* the files create_backup ended with
Archived == SelectSeq(prev.args.files, LAMBDA p : p \in DOMAIN call.pre_fs)

\* C6: create_backup([A, B], msg) followed by restore_backup(returned id)
\* writes copies of A's and B's archived content to the home-directory
\* destinations formed by prefixing a dot to each entry's base filename, and
\* list_backups reports msg and the creation timestamp for that archive.
C6_ArchiveRoundTrip ==
    RestoresCreated
        => /\ call.ret = TRUE
           /\ \A i \in 1..Len(Archived) :
                 /\ Home("." \o Archived[i].name) \in DOMAIN fs
                 /\ fs[Home("." \o Archived[i].name)] = call.pre_fs[Archived[i]]
           /\ \E j \in 1..Len(list_backups(archives, DefaultLimit)) :
                 /\ list_backups(archives, DefaultLimit)[j].timestamp = prev.ret[1]
                 /\ list_backups(archives, DefaultLimit)[j].message =
                       IF prev.args.message = NoMessage THEN DefaultMessage
                       ELSE prev.args.message

\* C6's case where the code does round-trip: the restore runs a second after
\* the archive of .bashrc and .profile was created
C6_RestoredLater ==
    /\ RestoresCreated
    /\ call.args.dt = 1
    /\ prev.args.message = <<"msg">>
    /\ Len(Archived) = 2
    /\ RESTORED \in DOMAIN call.pre_fs
    /\ fs[RESTORED] = call.pre_fs[BASHRC]
    /\ fs[Home("..profile")] = call.pre_fs[PROFILE]
    /\ list_backups(archives, DefaultLimit)[2].message = <<"msg">>

\* the call before the state left no trace of a change: no file touched or
\* written, no archive written
NoEffect(c) ==
    \A i \in 1..Len(c.log) : c.log[i].ev \notin {"touch", "write", "archive"}

\* C11: with dry_run set, no call of set_variable, remove_variable,
\* sync_variables, create_backup or restore_backup, however many follow one
\* another, creates, modifies or deletes a config file or an archive; a
\* missing primary file is not created and create_backup returns none.
C11_DryRunFrame ==
    [][dry_run => /\ fs' = fs
                  /\ archives' = archives
                  /\ NoEffect(call')
                  /\ call'.op = "create_backup" => call'.ret = <<>>]_vars

\* C11's case: in dry-run, after a create_backup that returned none, a
\* set_variable for bash, none of whose files exists, has succeeded and
\* created nothing
C11_NothingCreated ==
    /\ dry_run
    /\ backup_enabled
    /\ prev.op = "create_backup"
    /\ prev.ret = <<>>
    /\ call.op = "set_variable"
    /\ call.ret.ok
    /\ find_existing_config_files(fs, BASH) = <<>>
    /\ archives = NoArchives

(***************************************************************************)
(* SpecPartial: one set_variable over several shells, in real mode, in a   *)
(* home where some of the existing config files cannot be written.         *)
(***************************************************************************)
PartialPaths == {Home(".bashrc"), Home(".profile"), Home(".zshrc"), Home(".zprofile")}
PartialFiles == {f \in StoreFiles : DOMAIN f \subseteq PartialPaths}
PartialShells == {<<BASH, ZSH>>, <<ZSH, SH>>, <<BASH, ZSH, SH>>}

InitPartial ==
    /\ fs \in PartialFiles
    /\ readonly \in SUBSET DOMAIN fs
    /\ inflight = <<>>
    /\ archives = NoArchives
    /\ now = 0
    /\ dry_run = FALSE
    /\ backup_enabled \in BOOLEAN
    /\ runs = 0
    /\ prev = NoCall
    /\ call = NoCall

SetPartial ==
    /\ call = NoCall
    /\ \E name \in {X, Y}, shells \in PartialShells :
          Returns("set_variable",
                  [NoArgs EXCEPT !.name = name, !.value = <<"9">>, !.shells = shells],
                  set_variable(Here, name, <<"9">>, shells, "skip", NoPath))

NextPartial == SetPartial

SpecPartial == InitPartial /\ [][NextPartial]_vars

(***************************************************************************)
(* Properties of set_variable's targets (SpecPartial, Spec).               *)
(***************************************************************************)
\* the places in the call's events of the given kinds
Events(kinds) == {i \in 1..Len(call.log) : call.log[i].ev \in kinds}

\* the home as it was when the call resolved its shells: the files it began
\* with and those it created empty
Resolved ==
    [p \in DOMAIN call.pre_fs \cup {call.log[i].path : i \in Events({"touch"})} |->
        IF p \in DOMAIN call.pre_fs THEN call.pre_fs[p] ELSE <<>>]

\* the file to mutate for the shell: the first existing file that defines the
\* name, else the first existing file, else the first candidate
Located(f, shell, name) ==
    IF Defining(f, shell, name) # <<>> THEN Defining(f, shell, name)[1]
    ELSE IF find_existing_config_files(f, shell) # <<>>
    THEN find_existing_config_files(f, shell)[1]
    ELSE config_files(shell)[1]

\* the target files of the call
Targets12 ==
    {Located(Resolved, call.args.shells[i], call.args.name) :
        i \in 1..Len(call.args.shells)}

\* C12: in a set_variable call over several target files where the write to
\* one file fails, every other target file is updated and keeps its update,
\* the file that failed is as it was, and the call returns success if and
\* only if the update of every target file succeeded.
C12_PartialFailure ==
    (/\ call.op = "set_variable"
     /\ ~dry_run
     /\ Cardinality(Targets12) >= 2)
        => /\ \A p \in Targets12 \ readonly :
                 /\ p \in DOMAIN fs
                 /\ fs[p] = Concat(UpdatedLines(SplitLines(Resolved[p], <<>>),
                                                call.args.name, call.args.value))
                 /\ LastValue(fs, p, call.args.name) = call.args.value
           /\ \A p \in Targets12 \cap readonly : fs[p] = call.pre_fs[p]
           /\ call.ret.ok <=> Targets12 \cap readonly = {}

\* C12's case: of three target files the second cannot be written; the first
\* and the third hold the new value and the call returns failure
C12_OneFailed ==
    /\ call.op = "set_variable"
    /\ call.args.shells = <<BASH, ZSH, SH>>
    /\ call.args.name = Y
    /\ Targets12 = {Home(".bashrc"), Home(".zshrc"), Home(".profile")}
    /\ readonly = {Home(".zshrc")}
    /\ ~call.ret.ok
    /\ fs[Home(".zshrc")] = call.pre_fs[Home(".zshrc")]
    /\ LastValue(fs, Home(".bashrc"), Y) = <<"9">>
    /\ LastValue(fs, Home(".profile"), Y) = <<"9">>

\* a set_variable over shells that went on to its updates in real mode
SetApplied ==
    /\ call.op = "set_variable"
    /\ call.args.filepath = NoPath
    /\ ~dry_run
    /\ call.ret.out = "updated"

\* the shells of the call, by place, whose file to mutate is p
ResolvingTo(p) ==
    {i \in 1..Len(call.args.shells) :
        Located(Resolved, call.args.shells[i], call.args.name) = p}

\* the entries of the archives the call wrote that are named as p
Archivings(p) ==
    UNION {{<<j, k>> : k \in {k \in 1..Len(call.log[j].entries) :
                                 call.log[j].entries[k].name = p.name}} :
           j \in Events({"archive"})}

\* C13: when several target shells of one set_variable call resolve to the
\* same file, that file is once among the files to modify (one entry of the
\* call's archive) and is written exactly once during the call.
C13_FileDedup ==
    SetApplied =>
        \A p \in Targets12 :
            Cardinality(ResolvingTo(p)) >= 2 =>
                /\ Cardinality({i \in Events({"write"}) : call.log[i].path = p}) = 1
                /\ backup_enabled => Cardinality(Archivings(p)) = 1

\* C13's case: bash and sh both resolve to ~/.profile, which is archived and
\* written once
C13_SharedProfile ==
    /\ SetApplied
    /\ backup_enabled
    /\ call.args.shells = <<BASH, SH>>
    /\ ResolvingTo(Home(".profile")) = {1, 2}
    /\ Cardinality({i \in Events({"write"}) : call.log[i].path = Home(".profile")}) = 1
    /\ Cardinality(Archivings(Home(".profile"))) = 1
    /\ LastValue(fs, Home(".profile"), call.args.name) = call.args.value

\* the paths the call wrote, and those it created
Written == {call.log[i].path : i \in Events({"write"})}
Created == {call.log[i].path : i \in Events({"touch"})}

\* C14: for each target shell set_variable mutates exactly one file: the
\* first existing file in the shell's candidate order whose parsed
\* assignments contain the name, else the shell's primary file (its first
\* existing file, or its first candidate path, created empty, when none
\* exists); no other file is written.  (Existing: when the shell is resolved,
\* which counts the files the call created for the shells before it.)
C14_TargetSelection ==
    SetApplied =>
        /\ Written = Targets12
        /\ \A p \in Created :
              /\ p \notin DOMAIN call.pre_fs
              /\ \E i \in 1..Len(call.args.shells) :
                    /\ p = config_files(call.args.shells[i])[1]
                    /\ find_existing_config_files(call.pre_fs, call.args.shells[i]) = <<>>
        /\ \A p \in DOMAIN fs \ Written :
              p \in DOMAIN call.pre_fs /\ fs[p] = call.pre_fs[p]

\* C14's case: X set for zsh, whose .zshrc exists and is empty while its
\* .zprofile defines X: .zprofile is written and .zshrc is not
C14_LaterFileHolds ==
    /\ SetApplied
    /\ call.args.shells = <<ZSH>>
    /\ call.args.name = X
    /\ Home(".zshrc") \in DOMAIN call.pre_fs
    /\ call.pre_fs[Home(".zshrc")] = <<>>
    /\ Home(".zprofile") \in DOMAIN call.pre_fs
    /\ Written = {Home(".zprofile")}
    /\ fs[Home(".zshrc")] = <<>>

(***************************************************************************)
(* Properties of the rewrite of one file (SpecFile).                       *)
(***************************************************************************)
\* the text of the file the call began with (none for no file), and the text
\* it left
TextBefore ==
    IF call.args.filepath \in DOMAIN call.pre_fs
    THEN call.pre_fs[call.args.filepath] ELSE <<>>
TextAfter == fs[call.args.filepath]

\* the formatted line of the call
Formatted == format_export_line(call.args.name, call.args.value)

Others(lines) ==
    SelectSeq(lines, LAMBDA line :
        ~(parse_export_line(line) # NoMatch
          /\ parse_export_line(line)[1] = call.args.name))

Plan ==
    sync_plan(call.pre_fs, call.args.from_shell, call.args.shells, call.args.keys)

\* the name is a source variable of the call: merged in the source shell and
\* matching one of the patterns, if any were given
SourceHas(name) ==
    /\ DictHas(shell_vars(call.pre_fs, call.args.from_shell), name)
    /\ \/ call.args.keys = <<>>
       \/ \E i \in 1..Len(call.args.keys) : call.args.keys[i] \in {name, STAR}

\* the name is out of sync in the destination
OutOfSync(dest, name) ==
    /\ SourceHas(name)
    /\ \/ ~DictHas(shell_vars(call.pre_fs, dest), name)
       \/ DictGet(shell_vars(call.pre_fs, dest), name)
             # DictGet(shell_vars(call.pre_fs, call.args.from_shell), name)

\* what a plan of the call must hold, and what an empty one must leave alone
PlanContent(plan) ==
    /\ ~DictHas(plan, call.args.from_shell)
    /\ \A i \in 1..Len(plan) : InSeq(plan[i][1], call.args.shells) /\ plan[i][2] # <<>>
    /\ \A dest \in Shells \ {call.args.from_shell} :
          InSeq(dest, call.args.shells) =>
              /\ DictHas(plan, dest) <=> \E name \in {X, Y} : OutOfSync(dest, name)
              /\ DictHas(plan, dest) =>
                    /\ \A k \in 1..Len(DictGet(plan, dest)) :
                          DictGet(plan, dest)[k][1] \in {X, Y}
                    /\ \A name \in {X, Y} :
                          /\ DictHas(DictGet(plan, dest), name) <=> OutOfSync(dest, name)
                          /\ OutOfSync(dest, name) =>
                                DictGet(DictGet(plan, dest), name) =
                                    [new_value |->
                                        DictGet(shell_vars(call.pre_fs,
                                                           call.args.from_shell), name),
                                     old_value |->
                                        IF DictHas(shell_vars(call.pre_fs, dest), name)
                                        THEN DictGet(shell_vars(call.pre_fs, dest), name)
                                        ELSE NotSet]
    /\ plan = <<>> =>
          /\ call.ret.ok
          /\ call.log = <<>>
          /\ fs = call.pre_fs
          /\ archives = call.pre_archives

\* C17: the plan of sync_variables has no entry for the source shell even
\* when it is listed as a destination; for every other destination it
\* records exactly the source variables whose merged destination value is
\* absent or different, with the new value and the prior value or the unset
\* marker; a destination with none has no entry; with an empty plan the call
\* returns success and writes nothing.
C17_PlanContent ==
    call.op = "sync_variables" => Bind(Plan, LAMBDA plan : PlanContent(plan))

\* C17's case: bash synced to bash, zsh and sh: the plan has X for zsh, with
\* .profile's 3 for zsh's a b, and no entry for bash or for sh, which reads
\* the same .profile
C17_PlanForZsh ==
    /\ call.op = "sync_variables"
    /\ call.args.from_shell = BASH
    /\ call.args.shells = <<BASH, ZSH, SH>>
    /\ call.args.keys = <<>>
    /\ Plan = << <<ZSH, << <<X, [new_value |-> <<"3">>,
                                 old_value |-> <<"a", SP, "b">>]>> >> >> >>

\* C17's case of the empty plan: sh synced to bash, which reads the same
\* .profile, in real mode
C17_InSync ==
    /\ call.op = "sync_variables"
    /\ call.args.from_shell = SH
    /\ call.args.shells = <<BASH>>
    /\ ~dry_run
    /\ Plan = <<>>
    /\ call.ret = Result(TRUE, "in sync")

(***************************************************************************)
(* Properties of the restore (SpecArchive).                                *)
(***************************************************************************)
\* the archive the restore was asked for, as it was when the call began
Restoring == call.pre_archives[call.args.backup_id]

\* a restore in real mode of an archive that exists
Restores ==
    /\ call.op = "restore_backup"
    /\ ~dry_run
    /\ call.args.backup_id \in DOMAIN call.pre_archives

\* the files create_backup was given and stored in the archive
Stored(archive) ==
    {p \in {archive.metadata.files[i] : i \in 1..Len(archive.metadata.files)} :
        \E k \in 1..Len(archive.entries) : archive.entries[k].name = p.name}

\* C18: for every shell config file this tool manages that create_backup
\* stored in an archive, restore_backup writes the archived bytes back to
\* that file's original path: after the restore the file at the path given
\* to create_backup holds the entry's bytes, and every write of the restore
\* goes to such a path.
C18_RestoreInPlace ==
    Restores =>
        /\ \A p \in Stored(Restoring) :
              p \in DOMAIN fs /\ fs[p] = ZipRead(Restoring, p.name)
        /\ \A i \in Writes : call.log[i].path \in Stored(Restoring)

\* C18's case: set_variable archives .bashrc and rewrites it; the restore a
\* second later leaves .bashrc as rewritten and writes the archived bytes
\* to ~/..bashrc
C18_RestoredBeside ==
    /\ Restores
    /\ prev.op = "set_variable"
    /\ call.args.dt = 1
    /\ Stored(Restoring) = {BASHRC}
    /\ fs[BASHRC] = call.pre_fs[BASHRC]
    /\ fs[BASHRC] # ZipRead(Restoring, BASHRC.name)
    /\ RESTORED \notin DOMAIN call.pre_fs
    /\ fs[RESTORED] = ZipRead(Restoring, BASHRC.name)

\* the destinations of the archive's entries that existed when the call began
Destinations ==
    {RestoreTarget(Restoring.entries[k].name) : k \in 1..Len(Restoring.entries)}
        \cap DOMAIN call.pre_fs

\* the archives the call wrote, as places in its events
Snapshots == {j \in 1..Len(call.log) : call.log[j].ev = "archive"}

\* the archive written at place j holds exactly the existing destinations,
\* each with the content it had when the call began
HoldsDestinations(j) ==
    {call.log[j].entries[k] : k \in 1..Len(call.log[j].entries)}
        = {[name |-> p.name, data |-> call.pre_fs[p]] : p \in Destinations}

\* the pre-restore archive came before every write and holds the existing
\* destinations, or there is none when no destination existed
SnapshotOrdered ==
    IF Destinations = {} THEN Snapshots = {}
    ELSE \E j \in Snapshots :
            /\ Snapshots = {j}
            /\ \A i \in Writes : j < i
            /\ HoldsDestinations(j)

\* C19: in real mode with backups enabled, when at least one destination of
\* the archive being restored exists, restore_backup creates a separate
\* pre-restore archive, one that is not the archive being restored, holding
\* the current content of exactly those destinations, before it writes any
\* archived entry; when no destination exists it creates none.
C19_PreRestoreSnapshot ==
    (Restores /\ backup_enabled) =>
        /\ SnapshotOrdered
        /\ \A j \in Snapshots : call.log[j].ts # call.args.backup_id

\* C19's case where the code does snapshot apart: ~/..bashrc exists and the
\* restore runs a second after the archive was created
C19_SnapshotApart ==
    /\ Restores
    /\ backup_enabled
    /\ call.args.dt = 1
    /\ Destinations = {RESTORED}
    /\ Snapshots = {1}
    /\ call.log[1].ts = call.args.backup_id + 1
    /\ call.log[1].entries = <<[name |-> RESTORED.name, data |-> call.pre_fs[RESTORED]]>>
    /\ Writes = {2}
    /\ archives[call.args.backup_id] = Restoring

(***************************************************************************)
(* Properties of the archive directory (SpecArchive).                      *)
(***************************************************************************)
\* the step keeps every archive there was, with its entries and metadata,
\* and none of the archives its call wrote took the name of another
ArchivesKept ==
    /\ \A t \in DOMAIN archives :
          t \in DOMAIN archives' /\ archives'[t] = archives[t]
    /\ \A j \in 1..Len(call'.log) :
          call'.log[j].ev = "archive" => ~call'.log[j].existed

\* C20: once an archive is written no later operation (create_backup,
\* set_variable, remove_variable, sync_variables, restore_backup with its
\* pre-restore snapshot) changes or replaces it: every snapshot taken stays
\* present with its original content beside the others, also when two are
\* taken within the same clock second.
C20_ArchivesImmutable == [][ArchivesKept]_vars

\* C20's case where the archives do coexist: a second create_backup, a
\* second after the first, leaves the first archive as it was
C20_Coexisting ==
    /\ call.op = "create_backup"
    /\ prev.op = "create_backup"
    /\ prev.ret # <<>>
    /\ call.ret = <<prev.ret[1] + 1>>
    /\ DOMAIN archives = {prev.ret[1], call.ret[1]}
    /\ archives[prev.ret[1]] = call.pre_archives[prev.ret[1]]

(***************************************************************************)
(* SpecRace: two invocations of update_variable_in_file on one file, side  *)
(* by side.  Each reads the whole file (line 428), computes its new lines  *)
(* in memory (lines 429-447) and rewrites the whole file (line 449); the   *)
(* other may run between the read and the write.  seen and wrote are the   *)
(* number of writes made when the invocation read, and with its own write. *)
(***************************************************************************)
Procs == {1, 2}

\* the value each invocation sets
RaceValue(p) == IF p = 1 THEN <<"8">> ELSE <<"9">>

InitRace ==
    /\ fs \in {EmptyFs} \cup {[p \in {BASHRC} |-> t] : t \in FileTexts}
    /\ archives = NoArchives
    /\ now = 0
    /\ dry_run = FALSE
    /\ backup_enabled = FALSE
    /\ runs = 0
    /\ prev = NoCall
    /\ readonly = {}
    /\ call = NoCall
    /\ inflight \in {[p \in Procs |->
                        [pc |-> "start", name |-> n[p], value |-> RaceValue(p),
                         lines |-> <<>>, seen |-> 0, wrote |-> 0]] :
                     n \in [Procs -> FileNames]}

\* line 428: lines = self.read_config_file(filepath)
RaceRead(p) ==
    /\ inflight[p].pc = "start"
    /\ inflight' = [inflight EXCEPT ![p].pc = "read",
                                    ![p].lines = read_config_file(fs, BASHRC),
                                    ![p].seen = runs]
    /\ UNCHANGED <<fs, archives, now, dry_run, backup_enabled, call, prev, runs,
                   readonly>>

\* an invocation that computes from the file as it is when it writes
FreshLines(p) == read_config_file(fs, BASHRC)

\* the lines the invocation computes from: the lines it read
HeldLines(p) == inflight[p].lines

\* lines 429-450: the new lines are computed from the lines held and the
\* whole file is rewritten with them
RaceWrite(p) ==
    /\ inflight[p].pc = "read"
    /\ LET w == write_config_file(Here, BASHRC,
                     UpdatedLines(HeldLines(p), inflight[p].name, inflight[p].value))
       IN  /\ fs' = w.fs
           /\ call' = Call("update_variable_in_file",
                           [NoArgs EXCEPT !.filepath = BASHRC,
                                          !.name = inflight[p].name,
                                          !.value = inflight[p].value],
                           TRUE, w)
    /\ prev' = call
    /\ runs' = runs + 1
    /\ inflight' = [inflight EXCEPT ![p].pc = "done", ![p].wrote = runs + 1]
    /\ UNCHANGED <<archives, now, dry_run, backup_enabled, readonly>>

NextRace == \E p \in Procs : RaceRead(p) \/ RaceWrite(p)

SpecRace == InitRace /\ [][NextRace]_vars

(***************************************************************************)
(* Properties of invocations side by side (SpecRace).                      *)
(***************************************************************************)
\* both invocations are done, for different names, and both read the file
\* before either wrote it
BothReadFirst ==
    /\ inflight # <<>>
    /\ \A p \in Procs : inflight[p].pc = "done" /\ inflight[p].seen = 0
    /\ inflight[1].name # inflight[2].name

\* the invocation that wrote last, the one that wrote first
Later == CHOOSE p \in Procs : inflight[p].wrote = 2
Earlier == CHOOSE p \in Procs : inflight[p].wrote = 1

\* the lines of the file before the first write
OriginalLines == read_config_file(prev.pre_fs, BASHRC)

\* C21: update_variable_in_file reads the whole file, computes the new
\* lines in memory and rewrites the whole file with no check that the file
\* is unchanged: when two invocations on one file for different names both
\* read before either writes, the final file is the later writer's update
\* of the file as it was read, and the earlier writer's change is lost: the
\* file has the earlier writer's line only where it was from the start.
C21_LostUpdate ==
    BothReadFirst =>
        /\ fs[BASHRC] = Concat(UpdatedLines(OriginalLines, inflight[Later].name,
                                            inflight[Later].value))
        /\ \A i \in 1..Len(read_config_file(fs, BASHRC)) :
              read_config_file(fs, BASHRC)[i]
                    = format_export_line(inflight[Earlier].name, inflight[Earlier].value)
                 => InSeq(read_config_file(fs, BASHRC)[i], OriginalLines)
        /\ fs[BASHRC] # Concat(UpdatedLines(read_config_file(call.pre_fs, BASHRC),
                                            inflight[Later].name, inflight[Later].value))

\* C21's case: on export X=1 the first invocation sets X to 8 and writes
\* first, the second sets Y to 9 from the lines it read before; the file
\* ends with X still 1
C21_EarlierLost ==
    /\ BothReadFirst
    /\ Earlier = 1
    /\ inflight[1].name = X
    /\ BASHRC \in DOMAIN prev.pre_fs
    /\ prev.pre_fs[BASHRC] = EXPORT \o <<SP, "X", "=", "1", NL>>
    /\ call.pre_fs[BASHRC] = EXPORT \o <<SP, "X", "=", "8", NL>>
    /\ fs[BASHRC] = EXPORT \o <<SP, "X", "=", "1", NL>> \o EXPORT \o <<SP, "Y", "=", "9", NL>>

(***************************************************************************)
(* Properties of set and remove across shells (Spec).                      *)
(***************************************************************************)
\* a set_variable of one shell, without --file, that returned success in
\* real mode
SetSucceeded ==
    /\ call.op = "set_variable"
    /\ ~dry_run
    /\ call.ret.ok
    /\ Len(call.args.shells) = 1
    /\ call.args.filepath = NoPath

\* C22: after set_variable(name, value, [S]) returns success in real mode,
\* the merged variables of shell S map name to value, whatever S's
\* configuration files held before, also when several of them defined the
\* name.
C22_ReadYourWrites ==
    SetSucceeded =>
        Bind(shell_vars(fs, call.args.shells[1]),
             LAMBDA merged : /\ DictHas(merged, call.args.name)
                             /\ DictGet(merged, call.args.name) = call.args.value)

\* C22's case where the value is read back: .bashrc alone defines X for
\* bash and X is set to a b
C22_ReadBack ==
    /\ SetSucceeded
    /\ call.args.shells = <<BASH>>
    /\ call.args.name = X
    /\ call.args.value = <<"a", SP, "b">>
    /\ DOMAIN call.pre_fs = {BASHRC}
    /\ fs[BASHRC] = EXPORT \o <<SP, "X", "=", DQ, "a", SP, "b", DQ, NL>>
    /\ DictGet(shell_vars(fs, BASH), X) = <<"a", SP, "b">>

\* a set_variable or remove_variable aimed at shells, not at a --file
Aimed ==
    /\ call.op \in {"set_variable", "remove_variable"}
    /\ call.args.filepath = NoPath

\* the shells the call was not aimed at
NonTargets == {S \in Shells : ~InSeq(S, call.args.shells)}

\* C23: set_variable or remove_variable called with target shells T leaves
\* the merged variables of every shell not in T as they were, although the
\* candidate file lists overlap (~/.profile is a candidate of bash and of
\* sh).
C23_NonTargetsKept ==
    Aimed => \A S \in NonTargets : shell_vars(fs, S) = shell_vars(call.pre_fs, S)

\* C23's case where the others are kept: X is set for zsh in .zshrc while
\* .profile defines X for bash and sh, whose merged variables stay
C23_ZshOnly ==
    /\ Aimed
    /\ call.op = "set_variable"
    /\ call.args.shells = <<ZSH>>
    /\ call.args.name = X
    /\ ~dry_run
    /\ call.ret.ok
    /\ PROFILE \in DOMAIN call.pre_fs
    /\ Home(".zshrc") \in DOMAIN call.pre_fs
    /\ fs[Home(".zshrc")] # call.pre_fs[Home(".zshrc")]
    /\ shell_vars(fs, BASH) = shell_vars(call.pre_fs, BASH)
    /\ shell_vars(fs, SH) = shell_vars(call.pre_fs, SH)

=============================================================================
